---------------------------- MODULE Spec2Model ----------------------------
(***************************************************************************)
(* A model of the discopt solvers: the knapsack branch-and-bound           *)
(* (src/knapsack/knapsack.py) and the graph colouring heuristics, the      *)
(* feasibility checker and the integer program (src/coloring/mip.py).      *)
(*                                                                         *)
(* Python lists and tuples are functions on 0..len-1, so that an index of  *)
(* the model is the index of the source.  None is the integer -1 wherever  *)
(* the source stores None in a list of non-negative integers.              *)
(***************************************************************************)
EXTENDS Integers, Sequences, FiniteSets, TLC

VARIABLES
    \* Knapsack object (src/knapsack/knapsack.py)
    k, v, w, x, has_x, optimal, best, kpc,
    \* the graph handed to the colouring functions: node |-> set of neighbours
    graph,
    \* greedy (src/coloring/mip.py): its arguments, locals and outcome
    order_none, order, generator, pos, new, colored, sent, ret, gpc,
    \* is_feasible: its arguments colors and obj, and what it returned
    f_colors, f_obj, f_result, f_mutated, fpc,
    \* iterated_greedy: its locals colors, k, iterations, stagnations, next_k
    colors, ig_k, iterations, stagnations, next_k, igpc,
    \* build_lp and the oracle: the bound, the solution and its status
    greedy_bound, lp_x, lp_obj, lp_status, lppc,
    \* solve: the tuple it returns (colors, objective, optimal flag) and how
    \* it ended
    s_colors, s_obj, s_optimal, spc

kvars == <<k, v, w, x, has_x, optimal, best, kpc>>
gvars == <<order_none, order, generator, pos, new, colored, sent, ret, gpc>>
fvars == <<f_colors, f_obj, f_result, f_mutated, fpc>>
igvars == <<colors, ig_k, iterations, stagnations, next_k, igpc>>
lpvars == <<greedy_bound, lp_x, lp_obj, lp_status, lppc>>
svars == <<s_colors, s_obj, s_optimal, spc>>
vars == <<kvars, graph, gvars, fvars, igvars, lpvars, svars>>

-----------------------------------------------------------------------------
(* Bounds of the model *)

\* most items of a knapsack instance
MaxItems == 3
\* values, weights and the capacity are drawn from -1..MaxVal
MaxVal == 1
\* most nodes of a graph
MaxNodes == 3
\* most nodes an order source supplies
MaxOrderLen == 3
\* the colours handed to is_feasible are drawn from -1..MaxColor
MaxColor == 1
\* the largest Welsh-Powell bound k the iterated_greedy loop is entered with,
\* where the graph is left open
MaxBound == 17

\* nodes of the graphs handed to solve
MaxSolveNodes == 2

-----------------------------------------------------------------------------
(* Constants of the program *)

\* iterated_greedy, line 111: iterations == 32
IterationLimit == 32

-----------------------------------------------------------------------------
(* Helpers for Python built-ins *)

None == -1

Max2(a, b) == IF a >= b THEN a ELSE b

SetMax(S) == CHOOSE m \in S : \A y \in S : y <= m

SetMin(S) == CHOOSE m \in S : \A y \in S : m <= y

\* len() of a list held as a function on 0..len-1
PyLen(f) == Cardinality(DOMAIN f)

\* the lists of length m over S
Lists(S, m) == [0..(m - 1) -> S]

RECURSIVE SumTo(_, _)
\* sum(f[0], ..., f[m-1])
SumTo(f, m) == IF m = 0 THEN 0 ELSE SumTo(f, m - 1) + f[m - 1]

-----------------------------------------------------------------------------
(* Knapsack: src/knapsack/knapsack.py *)

\* self.n
n == PyLen(v)

\* objective(): sum of v_i * x_i
objective(xs) == SumTo([i \in 0..(n - 1) |-> v[i] * xs[i]], n)

\* _feasible(): total weight of x within the capacity
feasible(xs) == SumTo([i \in 0..(n - 1) |-> w[i] * xs[i]], n) <= k

\* a cut that lets one unit of excess weight through
OverweightOffByOne(weight) == weight > k + 1

\* _branch, line 84: the branch is cut when the weight exceeds the capacity
Overweight(weight) == weight > k

\* a capture that drops ties with the best so far
CaptureStrict(value, best_in) == value > best_in

\* _branch, line 96: a leaf is captured when its value is at least the best so far
Capture(value, best_in) == value >= best_in

RECURSIVE branch(_, _, _, _, _, _)
\* _branch(t, i, prev_val, prev_weight, best); cap is the attribute self.x as
\* the call finds it, and the result carries it as the call leaves it
branch(t, i, prev_val, prev_weight, best_in, cap) ==
    LET weight == prev_weight + w[i] * t[i] IN
    IF Overweight(weight)
    THEN [best |-> best_in, x |-> cap.x, has_x |-> cap.has_x]
    ELSE
      LET value == prev_val + v[i] * t[i]
          nb0 == Max2(value, best_in)
      IN
      IF i < n - 1
      THEN
        LET r0 == branch([t EXCEPT ![i + 1] = 0], i + 1, value, weight, nb0, cap)
            nb1 == Max2(r0.best, nb0)
            r1 == branch([t EXCEPT ![i + 1] = 1], i + 1, value, weight, nb1,
                         [x |-> r0.x, has_x |-> r0.has_x])
            nb2 == Max2(r1.best, nb1)
        IN [best |-> nb2, x |-> r1.x, has_x |-> r1.has_x]
      ELSE
        IF Capture(value, best_in)
        THEN [best |-> nb0, x |-> t, has_x |-> TRUE]
        ELSE [best |-> nb0, x |-> cap.x, has_x |-> cap.has_x]

\* _fill(): both branches of item 0, then the default x and the optimal flag
fill ==
    LET t == [i \in 0..(n - 1) |-> None]
        r0 == branch([t EXCEPT ![0] = 0], 0, 0, 0, 0,
                     [x |-> t, has_x |-> FALSE])
        r1 == branch([t EXCEPT ![0] = 1], 0, 0, 0, r0.best,
                     [x |-> r0.x, has_x |-> r0.has_x])
        xs == IF r1.has_x THEN r1.x ELSE [i \in 0..(n - 1) |-> 0]
    IN [best |-> r1.best, x |-> xs, has_x |-> r1.has_x,
        optimal |-> (objective(xs) = r1.best)]

\* the instances handed to Knapsack(k, v, w): integer vectors, also of
\* different lengths and empty
KnapsackInit ==
    /\ k \in -1..MaxVal
    /\ \E lv \in 0..MaxItems, lw \in 0..MaxItems :
         /\ v \in Lists(-1..MaxVal, lv)
         /\ w \in Lists(-1..MaxVal, lw)
    /\ x = << >>
    /\ has_x = FALSE
    /\ optimal = FALSE
    /\ best = 0
    /\ kpc = "new"

\* Knapsack.__init__: the size checks, _fill and the feasibility assertion
\* (the elements are integers in every instance of the model, so the type
\* check of lines 34-37 passes)
Knapsack ==
    /\ kpc = "new"
    /\ IF PyLen(v) # PyLen(w) \/ n < 1
       THEN /\ kpc' = "ValueError"
            /\ UNCHANGED <<x, has_x, optimal, best>>
       ELSE LET r == fill IN
            /\ x' = r.x
            /\ has_x' = r.has_x
            /\ optimal' = r.optimal
            /\ best' = r.best
            /\ kpc' = IF feasible(r.x) THEN "ok" ELSE "AssertionError"
    /\ UNCHANGED <<k, v, w>>

\* no knapsack is being solved
KnapsackIdle ==
    /\ k = 0
    /\ v = << >>
    /\ w = << >>
    /\ x = << >>
    /\ has_x = FALSE
    /\ optimal = FALSE
    /\ best = 0
    /\ kpc = "idle"

-----------------------------------------------------------------------------
(* Graphs: parse_graph and the Digraph it fills, src/coloring/mip.py *)

\* the unordered pairs of the nodes 0..N-1
Pairs(N) == {e \in (0..(N - 1)) \X (0..(N - 1)) : e[1] < e[2]}

\* parse_graph: every edge u v is added in both directions
GraphOf(N, E) ==
    [u \in 0..(N - 1) |->
        {y \in 0..(N - 1) : <<u, y>> \in E \/ <<y, u>> \in E}]

\* the undirected graphs on the nodes 0..N-1 (parse_graph's edge count
\* assertion admits neither a loop nor a repeated edge)
Graphs(N) == {GraphOf(N, E) : E \in SUBSET Pairs(N)}

\* for node in graph
Nodes(g) == DOMAIN g

\* list(graph): the nodes in label order, as a sequence
NodeSeq(g) == [i \in 1..PyLen(g) |-> i - 1]

\* the sequences over S of length at most m
SeqsUpTo(S, m) == UNION {[1..l -> S] : l \in 0..m}

-----------------------------------------------------------------------------
(* greedy: src/coloring/mip.py, lines 21-60 *)

\* a range that stops one colour short
ColorRangeShort(g) == 0..(PyLen(g) - 2)

\* line 34: colors = range(len(graph))
ColorRange(g) == 0..(PyLen(g) - 1)

\* the colours of the neighbours of smaller index only
NeighborsColorsBelow(g, cur, node) ==
    {cur[neighbor] : neighbor \in {y \in g[node] : y < node}}

\* lines 49-50: the colours (None among them) of the neighbours of node
NeighborsColors(g, cur, node) ==
    {cur[neighbor] : neighbor \in {y \in g[node] : y < PyLen(cur)}}

\* lines 49-54: node takes the least colour of the range that no neighbour
\* has; it keeps what it had when the range holds none
Assign(g, cur, node) ==
    LET free == ColorRange(g) \ NeighborsColors(g, cur, node) IN
    IF free = {} THEN cur ELSE [cur EXCEPT ![node] = SetMin(free)]

\* line 57: None in new
HasNone(cur) == \E i \in DOMAIN cur : cur[i] = None

\* the nodes the source has handed out so far, by next() or by send()
Supplied == SubSeq(order, 1, pos)

\* nothing returned (yet)
NoReturn == << >>

\* greedy(graph, order): an order that is a list, a generator (an order
\* source resumed by next() and by send()), or None
GreedyInit ==
    /\ \E N \in 1..MaxNodes :
         /\ graph \in Graphs(N)
         /\ \/ /\ order_none = FALSE
               /\ order \in SeqsUpTo(0..(N - 1), MaxOrderLen)
               /\ generator \in BOOLEAN
            \/ /\ order_none = TRUE
               /\ order = << >>
               /\ generator = FALSE
    /\ pos = 0
    /\ new = << >>
    /\ colored = << >>
    /\ sent = 0
    /\ ret = NoReturn
    /\ gpc = "start"

\* greedy is not running
GreedyIdle ==
    /\ order_none = FALSE
    /\ order = << >>
    /\ generator = FALSE
    /\ pos = 0
    /\ new = << >>
    /\ colored = << >>
    /\ sent = 0
    /\ ret = NoReturn
    /\ gpc = "idle"

\* lines 31-38: the default order, the empty colouring, the kind of source
GreedyStart ==
    /\ gpc = "start"
    /\ order' = IF order_none THEN NodeSeq(graph) ELSE order
    /\ new' = [node \in Nodes(graph) |-> None]
    /\ gpc' = "loop"
    /\ UNCHANGED <<order_none, generator, pos, colored, sent, ret>>

\* lines 40-54: next(order) hands out a node and the node is coloured
GreedyColor ==
    /\ gpc = "loop"
    /\ pos < Len(order)
    /\ LET node == order[pos + 1] IN
         /\ new' = Assign(graph, new, node)
         /\ colored' = Append(colored, node)
    /\ pos' = pos + 1
    /\ gpc' = IF generator THEN "send" ELSE "loop"
    /\ UNCHANGED <<order_none, order, generator, sent, ret>>

\* lines 55-56: order.send(new) resumes the source with the partial colouring;
\* the source runs to its next yield, whose value send returns and greedy
\* drops, or it ends and send raises StopIteration out of greedy
GreedySend ==
    /\ gpc = "send"
    /\ sent' = sent + 1
    /\ IF pos < Len(order)
       THEN /\ pos' = pos + 1
            /\ gpc' = "loop"
       ELSE /\ pos' = pos
            /\ gpc' = "StopIteration"
    /\ UNCHANGED <<order_none, order, generator, new, colored, ret>>

\* lines 42-43 and 57-60: next(order) raises StopIteration, the loop ends, and
\* greedy returns the colouring or raises the ordering error
GreedyFinish ==
    /\ gpc = "loop"
    /\ pos = Len(order)
    /\ IF HasNone(new)
       THEN /\ gpc' = "ValueError"
            /\ ret' = ret
       ELSE /\ gpc' = "returned"
            /\ ret' = new
    /\ UNCHANGED <<order_none, order, generator, pos, new, colored, sent>>
-----------------------------------------------------------------------------
(* is_feasible: src/coloring/mip.py, lines 203-219 *)

\* A Python number: its value, and whether isinstance(., int) holds of it
\* (int |-> FALSE is a float of integral value, such as 1.0)
PyInt(c) == [val |-> c, int |-> TRUE]

PyFloat(c) == [val |-> c, int |-> FALSE]

\* max(colors), compared by value as Python compares an int with a float
MaxOf(cols) == SetMax({cols[i].val : i \in DOMAIN cols})

\* what is_feasible returns: None, or the reason with the values it names
NoReason == [reason |-> "None", a |-> None, b |-> None, c |-> None]

Reason(text, a, b, c) == [reason |-> text, a |-> a, b |-> b, c |-> c]

\* line 212 without the test of the sign
IncomprehensibleNoSign(color) == ~color.int

\* line 212: not isinstance(color, int) or color < 0
Incomprehensible(color) == ~color.int \/ color.val < 0

\* lines 215-216: the neighbours of node that have its colour
Clashes(g, cols, node) ==
    {neighbor \in g[node] : cols[node].val = cols[neighbor].val}

\* is_feasible(graph, colors, obj): the four checks in the order of the source;
\* the nodes are visited in label order, and so are the neighbours of a node
is_feasible(g, cols, obj) ==
    IF PyLen(g) # PyLen(cols)
    THEN Reason("wrong number of colors assigned", PyLen(g), PyLen(cols), None)
    ELSE IF MaxOf(cols) # obj
    THEN Reason("Expected objective value", obj, MaxOf(cols), None)
    ELSE
      LET bad == {node \in Nodes(g) :
                     \/ Incomprehensible(cols[node])
                     \/ Clashes(g, cols, node) # {}}
      IN
      IF bad = {}
      THEN NoReason
      ELSE
        LET node == SetMin(bad) IN
        IF Incomprehensible(cols[node])
        THEN Reason("incomprehensible color assignment", node,
                    cols[node].val, None)
        ELSE Reason("cannot both be color", node,
                    SetMin(Clashes(g, cols, node)), cols[node].val)

\* the colour lists of length l: numbers of -1..MaxColor, at most one of them
\* not an int
ColorLists(l) ==
    {[i \in 0..(l - 1) |-> IF i = fl THEN PyFloat(vals[i]) ELSE PyInt(vals[i])] :
        vals \in Lists(-1..MaxColor, l), fl \in -1..(l - 1)}

\* is_feasible(graph, colors, obj) on a graph of N >= 1 nodes, a list of
\* N - 1, N or N + 1 colours and any claimed objective
FeasibleInit ==
    /\ \E N \in 1..MaxNodes :
         /\ graph \in Graphs(N)
         /\ \E l \in {N - 1, N, N + 1} : f_colors \in ColorLists(l)
    /\ f_obj \in -1..MaxColor
    /\ f_result = NoReason
    /\ f_mutated = FALSE
    /\ fpc = "call"

\* is_feasible is not running
FeasibleIdle ==
    /\ f_colors = << >>
    /\ f_obj = 0
    /\ f_result = NoReason
    /\ f_mutated = FALSE
    /\ fpc = "idle"

\* the call is_feasible(graph, colors, obj)
IsFeasible ==
    /\ fpc = "call"
    /\ f_result' = is_feasible(graph, f_colors, f_obj)
    /\ fpc' = "checked"
    /\ UNCHANGED <<f_colors, f_obj, f_mutated>>

\* a colouring that passed has one colour changed to that of a neighbour, and
\* is handed to is_feasible again, with the old objective or the new maximum
Mutate ==
    /\ fpc = "checked"
    /\ f_result = NoReason
    /\ ~f_mutated
    /\ \E node \in Nodes(graph) : \E neighbor \in graph[node] :
         /\ f_colors' = [f_colors EXCEPT ![node] = f_colors[neighbor]]
         /\ f_obj' \in {f_obj, MaxOf(f_colors')}
    /\ f_mutated' = TRUE
    /\ fpc' = "call"
    /\ UNCHANGED f_result

-----------------------------------------------------------------------------
(* welsh_powell and iterated_greedy: src/coloring/mip.py, lines 62-115 *)

RECURSIVE GreedyFold(_, _, _, _)
\* the loop of greedy over a list: the nodes of ord from position i on
GreedyFold(g, ord, i, cur) ==
    IF i > Len(ord) THEN cur
    ELSE GreedyFold(g, ord, i + 1, Assign(g, cur, ord[i]))

\* greedy(graph, order) for an order that is a list
greedy(g, ord) == GreedyFold(g, ord, 1, [node \in Nodes(g) |-> None])

\* the sequence without its element at position j
RemoveAt(sq, j) == SubSeq(sq, 1, j - 1) \o SubSeq(sq, j + 1, Len(sq))

RECURSIVE SortedBy(_, _)
\* sorted(sq, key=...): ascending in the key, stable
SortedBy(sq, key) ==
    IF sq = << >> THEN << >>
    ELSE
      LET least == SetMin({key[sq[i]] : i \in 1..Len(sq)})
          j == SetMin({i \in 1..Len(sq) : key[sq[i]] = least})
      IN <<sq[j]>> \o SortedBy(RemoveAt(sq, j), key)

\* line 67: the nodes by descending degree
DegreeOrder(g) == SortedBy(NodeSeq(g), [node \in Nodes(g) |-> -Cardinality(g[node])])

\* welsh_powell(graph)
welsh_powell(g) == greedy(g, DegreeOrder(g))

\* line 89: the nodes by descending colour
Preorder(g, cs) == SortedBy(NodeSeq(g), [node \in Nodes(g) |-> -cs[node]])

\* lines 95-97: the size of each colour class
Sizes(cs, bound) ==
    [color \in 0..bound |-> Cardinality({node \in DOMAIN cs : cs[node] = color})]

\* a largest-first order that sorts the nodes in label order, not the preorder
LargestFirstOfLabels(g, cs, bound) ==
    LET sizes == Sizes(cs, bound) IN
    SortedBy(NodeSeq(g), [node \in Nodes(g) |-> -sizes[cs[node]]])

\* lines 94-98: largest-first, the preorder by descending size of colour class
LargestFirst(g, cs, bound) ==
    LET sizes == Sizes(cs, bound) IN
    SortedBy(Preorder(g, cs), [node \in Nodes(g) |-> -sizes[cs[node]]])

\* lines 101-102: the preorder by the random key of each node's colour
RandomShuffle(g, cs, random) ==
    SortedBy(Preorder(g, cs), [node \in Nodes(g) |-> random[cs[node]]])

\* lines 89-102: the order of this iteration
IterationOrder(g, cs, bound, iter, random) ==
    IF iter % 3 = 0 THEN Preorder(g, cs)
    ELSE IF iter % 3 = 1 THEN LargestFirst(g, cs, bound)
    ELSE RandomShuffle(g, cs, random)

\* graphs beyond MaxNodes: two of six nodes on which Welsh-Powell needs three
\* colours and a recolouring finds two, the path 0-2-3-1, the cycle of five
\* nodes and the complete graph of four
HardGraphs ==
    {GraphOf(6, {<<0, 3>>, <<0, 5>>, <<1, 2>>, <<1, 4>>, <<2, 3>>}),
     GraphOf(6, {<<0, 4>>, <<0, 5>>, <<1, 2>>, <<1, 3>>, <<2, 5>>, <<3, 4>>}),
     GraphOf(4, {<<0, 2>>, <<2, 3>>, <<1, 3>>}),
     GraphOf(5, {<<0, 1>>, <<1, 2>>, <<2, 3>>, <<3, 4>>, <<0, 4>>}),
     GraphOf(4, Pairs(4))}

\* iterated_greedy(graph), as build_lp calls it
IGInit ==
    /\ graph \in UNION {Graphs(N) : N \in 1..MaxNodes} \cup HardGraphs
    /\ colors = << >>
    /\ ig_k = 0
    /\ iterations = 0
    /\ stagnations = 0
    /\ next_k = 0
    /\ igpc = "start"

\* iterated_greedy is not running
IGIdle ==
    /\ colors = << >>
    /\ ig_k = 0
    /\ iterations = 0
    /\ stagnations = 0
    /\ next_k = 0
    /\ igpc = "idle"

\* lines 85-87: the Welsh-Powell colouring and its bound
IGStart ==
    /\ igpc = "start"
    /\ colors' = welsh_powell(graph)
    /\ ig_k' = SetMax({colors'[node] : node \in DOMAIN colors'})
    /\ iterations' = 1
    /\ stagnations' = 0
    /\ igpc' = "loop"
    /\ UNCHANGED next_k

\* lines 104-114: the bound of the recolouring, the count, the assertion, and
\* the three ways on: improved, stop, one stagnation more
LoopStep(next_colors, nk) ==
    /\ next_k' = nk
    /\ iterations' = iterations + 1
    /\ IF nk > ig_k
       THEN /\ igpc' = "AssertionError"
            /\ UNCHANGED <<colors, ig_k, stagnations>>
       ELSE IF nk < ig_k
       THEN /\ colors' = next_colors
            /\ ig_k' = nk
            /\ stagnations' = 0
            /\ igpc' = "loop"
       ELSE IF stagnations = 1 \/ iterations' = IterationLimit
       THEN /\ igpc' = "done"
            /\ UNCHANGED <<colors, ig_k, stagnations>>
       ELSE /\ stagnations' = stagnations + 1
            /\ igpc' = "loop"
            /\ UNCHANGED <<colors, ig_k>>

\* lines 88-114: one iteration of the loop on the graph
IGIterate ==
    /\ igpc = "loop"
    /\ graph # << >>
    /\ \E random \in IF iterations % 3 = 2 THEN [0..ig_k -> 0..ig_k]
                                         ELSE {[color \in 0..ig_k |-> 0]} :
         LET next_colors ==
                 greedy(graph, IterationOrder(graph, colors, ig_k, iterations, random))
         IN LoopStep(next_colors, SetMax({next_colors[node] : node \in DOMAIN next_colors}))

\* the loop entered with a Welsh-Powell bound k on a graph left open
LoopInit ==
    /\ graph = << >>
    /\ colors = << >>
    /\ ig_k \in 0..MaxBound
    /\ iterations = 1
    /\ stagnations = 0
    /\ next_k = 0
    /\ igpc = "loop"

\* lines 88-114 on a graph left open: the recolouring has some bound next_k
\* from 0 to k (the assertion of line 106 holds; a colour is never negative)
Recolor ==
    /\ igpc = "loop"
    /\ graph = << >>
    /\ \E nk \in 0..ig_k : LoopStep(colors, nk)

-----------------------------------------------------------------------------
(* build_lp and the oracle: src/coloring/mip.py, lines 154-201 and 232 *)

\* line 172: colors = list(range(greedy_bound + 1))
LPColors(bound) == 0..bound

\* lines 175-182: a binary decision for each node and colour
LPVars(g, bound) == [Nodes(g) -> [LPColors(bound) -> {0, 1}]]

\* line 199: one colour for each node
OneColor(g, bound, xx) ==
    \A node \in Nodes(g) :
        SumTo([c \in 0..bound |-> IF c \in LPColors(bound) THEN xx[node][c] ELSE 0],
              bound + 1) = 1

\* lines 187-190: node 0 is anchored to colour 0
Anchor(bound, xx) ==
    /\ xx[0][0] = 1
    /\ \A color \in LPColors(bound) : color # 0 => xx[0][color] = 0

\* lines 191-196: an edge, taken once with node > neighbor, has at most one
\* end of each colour
EdgeConstraints(g, bound, xx) ==
    \A node \in Nodes(g) : \A color \in LPColors(bound) :
        \A neighbor \in g[node] :
            node > neighbor => xx[node][color] + xx[neighbor][color] <= 1

\* a maximum constraint that leaves out the factor color
MaxConstraintsNoColor(g, bound, xx, obj) ==
    \A node \in Nodes(g) : \A color \in LPColors(bound) :
        obj >= xx[node][color]

\* lines 197-198: obj >= color * dec[node][color]
MaxConstraints(g, bound, xx, obj) ==
    \A node \in Nodes(g) : \A color \in LPColors(bound) :
        obj >= color * xx[node][color]

\* the solutions of the program: its variables within their bounds (line 184:
\* obj an integer of 0..greedy_bound) and under its constraints
LPFeasible(g, bound) ==
    UNION {{[x |-> xx, obj |-> obj] :
               obj \in {o \in 0..bound : MaxConstraints(g, bound, xx, o)}} :
           xx \in {yy \in LPVars(g, bound) :
                      /\ OneColor(g, bound, yy)
                      /\ Anchor(bound, yy)
                      /\ EdgeConstraints(g, bound, yy)}}

\* line 186 and LpMinimize: the solutions of least obj
LPOptimal(g, bound) ==
    LET sols == LPFeasible(g, bound) IN
    {s \in sols : \A s2 \in sols : s.obj <= s2.obj}

\* no program has been built
LPIdle ==
    /\ greedy_bound = 0
    /\ lp_x = << >>
    /\ lp_obj = 0
    /\ lp_status = "Not Solved"
    /\ lppc = "idle"

\* lines 170-201: iterated_greedy has returned; its bound fixes the colours of
\* the program (the locals of iterated_greedy are gone)
BuildLP ==
    /\ igpc = "done"
    /\ graph # << >>
    /\ lppc = "idle"
    /\ greedy_bound' = SetMax({colors[node] : node \in DOMAIN colors})
    /\ lppc' = "built"
    /\ colors' = << >>
    /\ ig_k' = 0
    /\ iterations' = 0
    /\ stagnations' = 0
    /\ next_k' = 0
    /\ igpc' = "returned"
    /\ UNCHANGED <<lp_x, lp_obj, lp_status>>

\* line 232, prob.solve(): the oracle returns a solution of least obj, or
\* reports that the program has none
OracleSolve ==
    /\ lppc = "built"
    /\ LET best_sols == LPOptimal(graph, greedy_bound) IN
         IF best_sols = {}
         THEN /\ lp_status' = "Infeasible"
              /\ UNCHANGED <<lp_x, lp_obj>>
         ELSE /\ lp_status' = "Optimal"
              /\ \E s \in best_sols :
                   /\ lp_x' = s.x
                   /\ lp_obj' = s.obj
    /\ lppc' = "solved"
    /\ UNCHANGED greedy_bound

-----------------------------------------------------------------------------
(* solve: src/coloring/mip.py, lines 221-248 *)

\* the statuses the oracle reports (pulp.LpStatus)
LpStatus == {"Optimal", "Not Solved", "Infeasible"}

\* line 239: the colours of node whose variable has a true value (None and 0
\* count as false, every other value as true)
Selected(xx, node, bound) == {color \in LPColors(bound) : xx[node][color] # 0}

\* lines 240-243: a second true variable of one node
MultipleColors(g, xx, bound) ==
    \E node \in Nodes(g) : Cardinality(Selected(xx, node, bound)) > 1

\* lines 235-241: the list colors, one entry for each node with a true
\* variable, in the order of the nodes
ReadColors(g, xx, bound) ==
    LET has == {node \in Nodes(g) : Selected(xx, node, bound) # {}}
        at(i) == CHOOSE node \in has :
                     Cardinality({m \in has : m < node}) = i
    IN [i \in 0..(Cardinality(has) - 1) |->
           PyInt(SetMin(Selected(xx, at(i), bound)))]

\* solve is not running
SolveIdle ==
    /\ s_colors = << >>
    /\ s_obj = 0
    /\ s_optimal = FALSE
    /\ spc = "idle"

\* lines 221-227: solve(data) on a graph of 1..MaxSolveNodes nodes, about to
\* build the program (build_lp starts with iterated_greedy)
SolveInit ==
    /\ graph \in UNION {Graphs(N) : N \in 1..MaxSolveNodes}
    /\ colors = << >>
    /\ ig_k = 0
    /\ iterations = 0
    /\ stagnations = 0
    /\ next_k = 0
    /\ igpc = "start"
    /\ s_colors = << >>
    /\ s_obj = 0
    /\ s_optimal = FALSE
    /\ spc = "running"

\* line 232, prob.solve() with any oracle: every variable gets a value, obj a
\* value or None, and the program a status
OracleReturns ==
    /\ lppc = "built"
    /\ lp_x' \in LPVars(graph, greedy_bound)
    /\ lp_obj' \in {None} \cup (0..greedy_bound)
    /\ lp_status' \in LpStatus
    /\ lppc' = "solved"
    /\ UNCHANGED greedy_bound

\* lines 235-248: read the colours, raise RuntimeError on a second colour of a
\* node or on a reason from is_feasible, else return the colours, the
\* objective and whether the status is "Optimal"
SolveReturn ==
    /\ spc = "running"
    /\ lppc = "solved"
    /\ IF MultipleColors(graph, lp_x, greedy_bound)
       THEN /\ spc' = "RuntimeError"
            /\ UNCHANGED <<s_colors, s_obj, s_optimal>>
       ELSE LET cols == ReadColors(graph, lp_x, greedy_bound) IN
            IF is_feasible(graph, cols, lp_obj) # NoReason
            THEN /\ spc' = "RuntimeError"
                 /\ UNCHANGED <<s_colors, s_obj, s_optimal>>
            ELSE /\ s_colors' = [i \in DOMAIN cols |-> cols[i].val]
                 /\ s_obj' = lp_obj
                 /\ s_optimal' = (lp_status = "Optimal")
                 /\ spc' = "returned"

-----------------------------------------------------------------------------
(* The specifications *)

KnapsackNext == Knapsack /\ UNCHANGED <<graph, gvars, fvars, igvars, lpvars, svars>>

InitKnapsack ==
    KnapsackInit /\ graph = << >> /\ GreedyIdle /\ FeasibleIdle /\ IGIdle /\ LPIdle /\ SolveIdle

SpecKnapsack == InitKnapsack /\ [][KnapsackNext]_vars

GreedyNext ==
    \/ GreedyStart /\ UNCHANGED <<kvars, graph, fvars, igvars, lpvars, svars>>
    \/ GreedyColor /\ UNCHANGED <<kvars, graph, fvars, igvars, lpvars, svars>>
    \/ GreedySend /\ UNCHANGED <<kvars, graph, fvars, igvars, lpvars, svars>>
    \/ GreedyFinish /\ UNCHANGED <<kvars, graph, fvars, igvars, lpvars, svars>>

InitGreedy == KnapsackIdle /\ GreedyInit /\ FeasibleIdle /\ IGIdle /\ LPIdle /\ SolveIdle

SpecGreedy == InitGreedy /\ [][GreedyNext]_vars

FeasibleNext ==
    \/ IsFeasible /\ UNCHANGED <<kvars, graph, gvars, igvars, lpvars, svars>>
    \/ Mutate /\ UNCHANGED <<kvars, graph, gvars, igvars, lpvars, svars>>

InitFeasible == KnapsackIdle /\ GreedyIdle /\ FeasibleInit /\ IGIdle /\ LPIdle /\ SolveIdle

SpecFeasible == InitFeasible /\ [][FeasibleNext]_vars

ColoringNext ==
    \/ IGStart /\ UNCHANGED <<kvars, graph, gvars, fvars, lpvars, svars>>
    \/ IGIterate /\ UNCHANGED <<kvars, graph, gvars, fvars, lpvars, svars>>
    \/ BuildLP /\ UNCHANGED <<kvars, graph, gvars, fvars, svars>>
    \/ OracleSolve /\ UNCHANGED <<kvars, graph, gvars, fvars, igvars, svars>>

InitColoring == KnapsackIdle /\ GreedyIdle /\ FeasibleIdle /\ IGInit /\ LPIdle /\ SolveIdle

SpecColoring == InitColoring /\ [][ColoringNext]_vars

LoopNext == Recolor /\ UNCHANGED <<kvars, graph, gvars, fvars, lpvars, svars>>

InitLoop == KnapsackIdle /\ GreedyIdle /\ FeasibleIdle /\ LoopInit /\ LPIdle /\ SolveIdle

SpecLoop == InitLoop /\ [][LoopNext]_vars

SolveNext ==
    \/ IGStart /\ UNCHANGED <<kvars, graph, gvars, fvars, lpvars, svars>>
    \/ IGIterate /\ UNCHANGED <<kvars, graph, gvars, fvars, lpvars, svars>>
    \/ BuildLP /\ UNCHANGED <<kvars, graph, gvars, fvars, svars>>
    \/ OracleReturns /\ UNCHANGED <<kvars, graph, gvars, fvars, igvars, svars>>
    \/ SolveReturn /\ UNCHANGED <<kvars, graph, gvars, fvars, igvars, lpvars>>

InitSolve == KnapsackIdle /\ GreedyIdle /\ FeasibleIdle /\ SolveInit /\ LPIdle

SpecSolve == InitSolve /\ [][SolveNext]_vars

-----------------------------------------------------------------------------
(* Claims about the knapsack solver, checked under SpecKnapsack *)

\* the assignments within the capacity, by enumeration of all 2^n subsets
FeasibleAssignments == {xs \in Lists({0, 1}, n) : feasible(xs)}

\* the largest objective of any assignment within the capacity
ExhaustiveMax == SetMax({objective(xs) : xs \in FeasibleAssignments})

AllZero == [i \in 0..(n - 1) |-> 0]

\* C1: for every instance Knapsack(k, v, w) accepts, the objective of the
\* solution is the maximum of sum(v_i * x_i) over all x in {0,1}^n with
\* sum(w_i * x_i) <= k, the value exhaustive enumeration finds.
C1_ObjectiveIsExhaustiveMax ==
    kpc = "ok" => objective(x) = ExhaustiveMax

\* C9: whenever the search completes the optimal flag is True: the objective
\* of the captured x equals the best value the recursion returns, also when
\* no leaf was captured and x is the all-zero default.
C9_OptimalAlwaysTrue ==
    kpc \in {"ok", "AssertionError"} =>
        /\ optimal = TRUE
        /\ objective(x) = best
        /\ (~has_x => x = AllZero)

\* C9 witness: a completed search that captured a leaf of positive value
C9_Witness ==
    /\ kpc = "ok"
    /\ has_x
    /\ n >= 2
    /\ best > 0

\* C10 (as amended): with capacity k = 0 and every weight > 0 the solver
\* produces the all-zero assignment (and the construction succeeds).
C10_ZeroCapacityAllPositive ==
    (/\ kpc \in {"ok", "AssertionError"}
     /\ k = 0
     /\ \A i \in 0..(n - 1) : w[i] > 0) => (kpc = "ok" /\ x = AllZero)

\* C10 witness: capacity 0, two or more items, all of positive weight, one
\* of positive value, solved
C10_Witness ==
    /\ kpc = "ok"
    /\ k = 0
    /\ n >= 2
    /\ \A i \in 0..(n - 1) : w[i] > 0
    /\ \E i \in 0..(n - 1) : v[i] > 0

\* C10 as stated: with capacity k = 0 and some weight > 0 the solver produces
\* the all-zero assignment (taken on instances without negative weights).
C10_ZeroCapacityAnyPositive ==
    (/\ kpc = "ok"
     /\ k = 0
     /\ \A i \in 0..(n - 1) : w[i] >= 0
     /\ \E i \in 0..(n - 1) : w[i] > 0) => x = AllZero

\* a comes before b in the depth-first order of the traversal: items in index
\* order, exclude (0) before include (1) at every depth
VisitedBefore(a, b) ==
    \E i \in 0..(n - 1) :
        /\ \A j \in 0..(i - 1) : a[j] = b[j]
        /\ a[i] = 0
        /\ b[i] = 1

\* the leaves within the capacity that attain the optimal value
OptimalLeaves == {xs \in FeasibleAssignments : objective(xs) = ExhaustiveMax}

\* C11: the final assignment x is, among all leaves within the capacity that
\* attain the optimal value, the one the depth-first order (index order,
\* exclude before include) visits last, and x is within the capacity.
C11_LastOptimalLeaf ==
    kpc = "ok" =>
        /\ feasible(x)
        /\ x \in OptimalLeaves
        /\ \A xs \in OptimalLeaves : xs = x \/ VisitedBefore(xs, x)

-----------------------------------------------------------------------------
(* Claims about greedy, checked under SpecGreedy *)

\* the order lists each node of the graph exactly once
IsPermutation(g, ord) ==
    /\ Len(ord) = PyLen(g)
    /\ \A node \in Nodes(g) : \E i \in 1..Len(ord) : ord[i] = node

\* the order leaves out no node of the graph
Covers(g, ord) == \A node \in Nodes(g) : \E i \in 1..Len(ord) : ord[i] = node

\* no edge joins two nodes of the same colour
Proper(g, cs) == \A u \in Nodes(g) : \A y \in g[u] : cs[u] # cs[y]

\* C2: for an undirected graph on 0..N-1 and an order that lists each node
\* exactly once, greedy returns a list of length N with no node uncoloured,
\* every colour in 0..N-1 and no edge between two nodes of one colour, and
\* is_feasible(graph, colors, max(colors)) is None.
C2_GreedyProper ==
    (gpc = "returned" /\ ~generator /\ IsPermutation(graph, order)) =>
        /\ DOMAIN ret = Nodes(graph)
        /\ \A node \in Nodes(graph) : ret[node] \in 0..(PyLen(graph) - 1)
        /\ Proper(graph, ret)
        /\ is_feasible(graph, [node \in DOMAIN ret |-> PyInt(ret[node])],
                       SetMax({ret[node] : node \in DOMAIN ret})) = NoReason

\* C2 witness: greedy has returned the colouring of a graph of three nodes with
\* an edge, from an order that lists each node once
C2_Witness ==
    /\ gpc = "returned"
    /\ ~generator
    /\ IsPermutation(graph, order)
    /\ PyLen(graph) = 3
    /\ \E u \in Nodes(graph) : graph[u] # {}

\* C4: with a generator as the order source, colourer and source alternate
\* strictly: the source receives the partial colouring once after each node,
\* the node it supplies in response is the next node coloured (none is skipped
\* or dropped), and when the source is exhausted greedy stops and returns; the
\* nodes coloured are exactly the nodes supplied.
C4_StrictAlternation ==
    generator =>
        /\ colored = Supplied
        /\ gpc # "StopIteration"
        /\ (gpc = "loop" => sent = Len(colored))

-----------------------------------------------------------------------------
(* Claims about is_feasible, checked under SpecFeasible *)

\* the four conditions of a valid colouring with objective obj
ValidColoring(g, cols, obj) ==
    /\ PyLen(cols) = PyLen(g)
    /\ MaxOf(cols) = obj
    /\ \A node \in Nodes(g) : cols[node].int /\ cols[node].val >= 0
    /\ \A node \in Nodes(g) : \A neighbor \in g[node] :
           cols[node].val # cols[neighbor].val

\* C3: is_feasible(graph, colors, obj) is None if and only if len(colors) = N,
\* max(colors) = obj, every colour is a non-negative integer and no edge has
\* two ends of one colour; otherwise it is a reason.  A valid colouring with one
\* colour changed to collide with a neighbour always gets a reason.
C3_FeasibleIffValid ==
    fpc = "checked" =>
        /\ (f_result = NoReason) <=> ValidColoring(graph, f_colors, f_obj)
        /\ f_result # NoReason => f_result.reason # "None"
        /\ f_mutated => f_result # NoReason

\* C3 witness: the colouring of a graph of three nodes passed, one colour was
\* changed to that of a neighbour, and the second call has returned
C3_Witness ==
    /\ fpc = "checked"
    /\ f_mutated
    /\ PyLen(graph) = 3
    /\ f_obj = MaxOf(f_colors)
    /\ \A node \in Nodes(graph) : f_colors[node].int /\ f_colors[node].val >= 0

-----------------------------------------------------------------------------
(* Claims about iterated_greedy and build_lp, checked under SpecColoring *)

\* C5: in iterated_greedy every recolouring has next_k <= k, under each of the
\* three orders and for every outcome of the random keys (equal keys of two
\* colours among them): the assertion 'Culberson lemma 4.1 violated' never
\* fails and the bound k never increases.
C5_CulbersonLemma ==
    [][igpc = "loop" =>
        /\ igpc' # "AssertionError"
        /\ next_k' <= ig_k
        /\ ig_k' <= ig_k]_vars

\* C5 witness: the loop is past the random shuffle of its second recolouring
\* with a bound below the one Welsh-Powell gave
C5_Witness ==
    /\ igpc = "loop"
    /\ graph # << >>
    /\ iterations >= 3
    /\ LET wp == welsh_powell(graph) IN
         ig_k < SetMax({wp[node] : node \in DOMAIN wp})

\* the least c for which the graph has a proper colouring with colours 0..c:
\* the chromatic number minus 1
ChromaticIndex(g) ==
    SetMin({c \in 0..(PyLen(g) - 1) :
               \E cs \in [Nodes(g) -> 0..c] : Proper(g, cs)})

\* C7: the integer program build_lp builds is feasible, and its least obj is
\* the smallest maximum colour of any proper colouring of the graph (the
\* chromatic number minus 1): neither the anchor nor the colours 0..B cut the
\* optimum off.
C7_LPOptimumIsChromatic ==
    lppc = "solved" =>
        /\ lp_status = "Optimal"
        /\ lp_obj = ChromaticIndex(graph)
        /\ LPFeasible(graph, greedy_bound) # {}

\* C7 witness: the program of a graph that needs three colours is solved
C7_Witness ==
    /\ lppc = "solved"
    /\ lp_status = "Optimal"
    /\ lp_obj = 2
    /\ ChromaticIndex(graph) = 2

-----------------------------------------------------------------------------
(* The claim about the loop of iterated_greedy, checked under SpecLoop *)

\* C6: the loop of iterated_greedy stops at the first of a second consecutive
\* iteration without improvement and the count of iterations reaching 32; no
\* sequence of iterations with and without improvement takes it past 32.
C6_StopsBy32 ==
    /\ iterations <= IterationLimit
    /\ igpc = "loop" => iterations < IterationLimit

-----------------------------------------------------------------------------
(* Claims about solve, checked under SpecSolve *)

\* every node has exactly one colour selected by the oracle's values
OneColorEach ==
    \A node \in Nodes(graph) :
        Cardinality(Selected(lp_x, node, greedy_bound)) = 1

\* C12: solve returns a solution only when the oracle reports an optimal
\* status and its values select exactly one colour for each node; an oracle
\* result with more than one colour for some node, or with a status that is
\* not optimal, makes solve fail with a fatal error instead of returning.
C12_FatalUnlessOptimalOneColor ==
    /\ spc = "returned" => (lp_status = "Optimal" /\ OneColorEach)
    /\ (/\ spc \in {"returned", "RuntimeError"}
        /\ \/ MultipleColors(graph, lp_x, greedy_bound)
           \/ lp_status # "Optimal") => spc = "RuntimeError"

=============================================================================
